---- MODULE Spec2Model ----
(***************************************************************************)
(* Parking-zone processor: ParkingZoneProcessor (parking_zones.py), the    *)
(* aggregator process_street_geometries (map_utils.py), the configuration  *)
(* tables (config.py) and the entry of generate_map (main.py).             *)
(*                                                                         *)
(* Text (street names, exception messages) is a sequence of one-character  *)
(* strings, so that str.lower() and the substring test are computed.       *)
(* Coordinates are integers standing for the floats of the program.        *)
(***************************************************************************)
EXTENDS Integers, Sequences, FiniteSets

VARIABLES
    constructed,      \* a ParkingZoneProcessor instance exists
    via,              \* who constructed it: "none", "direct", "generate_map"
    target_point,     \* self.target_point
    tile_provider,    \* self.tile_provider
    street_to_zone,   \* self.street_to_zone
    graph,            \* self.graph
    zone_geometries,  \* self.zone_geometries
    found_streets,    \* self.found_streets
    pc,               \* "idle", or "fetch" while fetch_map_data is in its loop
    max_retries,      \* argument of the running fetch_map_data
    attempt,          \* loop variable of fetch_map_data
    calls,            \* results of the collaborator calls of the running fetch_map_data
    fetch_called,     \* fetch_map_data has been called on this instance
    ret,              \* outcome of the last completed operation
    agg_in,           \* aggregator harness: the arguments of the call
    agg_out           \* aggregator harness: what the call produced

vars == << constructed, via, target_point, tile_provider, street_to_zone, graph,
           zone_geometries, found_streets, pc, max_retries, attempt, calls,
           fetch_called, ret, agg_in, agg_out >>

procVars == << constructed, via, target_point, tile_provider, street_to_zone, graph,
               zone_geometries, found_streets, pc, max_retries, attempt, calls,
               fetch_called, ret >>

-----------------------------------------------------------------------------
(* Bounds of the model.                                                    *)

\* largest max_retries passed to fetch_map_data
MaxRetries == 3

\* most edges of a graph handed to the aggregator harness
MaxEdges == 2

-----------------------------------------------------------------------------
(* Text.                                                                   *)

UpperAlpha ==
    << "A", "B", "C", "D", "E", "F", "G", "H", "I", "J", "K", "L", "M",
       "N", "O", "P", "Q", "R", "S", "T", "U", "V", "W", "X", "Y", "Z" >>

LowerAlpha ==
    << "a", "b", "c", "d", "e", "f", "g", "h", "i", "j", "k", "l", "m",
       "n", "o", "p", "q", "r", "s", "t", "u", "v", "w", "x", "y", "z" >>

\* the lower-case form of every upper-case letter
LowerOf ==
    [ c \in { UpperAlpha[i] : i \in DOMAIN UpperAlpha } |->
        LowerAlpha[CHOOSE i \in DOMAIN UpperAlpha : UpperAlpha[i] = c] ]

LowerChar(c) == IF c \in DOMAIN LowerOf THEN LowerOf[c] ELSE c

\* str.lower()
Lower(s) == [i \in DOMAIN s |-> LowerChar(s[i])]

\* needle in hay
Contains(hay, needle) ==
    \E i \in 0..(Len(hay) - Len(needle)) :
        \A j \in DOMAIN needle : hay[i + j] = needle[j]

-----------------------------------------------------------------------------
(* config.py                                                               *)

\* DEFAULTS['target_point'] = (45.38096, 20.39373), DEFAULTS['tile_provider']
DEFAULTS ==
    [ target_point  |-> << [num |-> TRUE, val |-> 45], [num |-> TRUE, val |-> 20] >>,
      tile_provider |-> "openstreetmap" ]

\* the keys of TILE_PROVIDERS
TILE_PROVIDERS == { "openstreetmap", "cyclosm", "cartodb_positron" }

\* get_tile_provider('all')
get_tile_provider_all == TILE_PROVIDERS

\* Street names of the model: one configured street per zone.
Pup == << "P", "u", "p" >>
Sav == << "S", "a", "v" >>
Obi == << "O", "b", "i" >>

\* PARKING_ZONES, in the dictionary's insertion order
PARKING_ZONES ==
    << [color |-> "red",    streets |-> << Pup >>],
       [color |-> "yellow", streets |-> << Sav >>],
       [color |-> "green",  streets |-> << Obi >>] >>

\* the keys of ZONE_COLORS
ZONE_COLORS == { "red", "yellow", "green" }

\* ERROR_MESSAGES, the two entries whose text fetch_map_data tests
ERROR_MESSAGES ==
    [ no_streets_found |->
        << "N", "o", " ", "s", "t", "r", "e", "e", "t", "s", " ", "f", "o", "u", "n", "d",
           " ", "i", "n", " ", "t", "h", "e", " ", "s", "p", "e", "c", "i", "f", "i", "e",
           "d", " ", "a", "r", "e", "a", ".", " ", "T", "r", "y", " ", "i", "n", "c", "r",
           "e", "a", "s", "i", "n", "g", " ", "t", "h", "e", " ", "s", "e", "a", "r", "c",
           "h", " ", "r", "a", "d", "i", "u", "s", " ", "o", "r", " ", "c", "h", "e", "c",
           "k", " ", "t", "h", "e", " ", "c", "o", "o", "r", "d", "i", "n", "a", "t", "e",
           "s", "." >>,
      map_data_fetch_failed |->
        << "F", "a", "i", "l", "e", "d", " ", "t", "o", " ", "f", "e", "t", "c", "h", " ",
           "m", "a", "p", " ", "d", "a", "t", "a", ".", " ", "P", "l", "e", "a", "s", "e",
           " ", "c", "h", "e", "c", "k", " ", "y", "o", "u", "r", " ", "i", "n", "t", "e",
           "r", "n", "e", "t", " ", "c", "o", "n", "n", "e", "c", "t", "i", "o", "n", " ",
           "a", "n", "d", " ", "t", "r", "y", " ", "a", "g", "a", "i", "n", "." >> ]

-----------------------------------------------------------------------------
(* The street graph of the retrieval collaborator.                         *)

\* Names an edge may carry: a configured street as configured, a configured
\* street in another case, and a street that is not configured.
SAV == << "S", "A", "V" >>
Xyz == << "X", "y", "z" >>
Names == { Pup, SAV, Xyz }

\* Candidate lists: the empty list, one name, or two different names in either order.
NameLists ==
    { <<>> } \cup { << a >> : a \in Names }
    \cup { l \in { << a, b >> : a \in Names, b \in Names } : l[1] # l[2] }

\* data.get('name'): absent, one string, or a list of strings
NameAttrs ==
    { [kind |-> "none", s |-> <<>>, l |-> <<>>] }
    \cup { [kind |-> "str", s |-> a, l |-> <<>>] : a \in Names }
    \cup { [kind |-> "list", s |-> <<>>, l |-> l] : l \in NameLists }

\* Node attributes: nodes 1 and 2 carry coordinates, node 3 carries none.
NodeTable ==
    << [has |-> TRUE, y |-> 45, x |-> 20],
       [has |-> TRUE, y |-> 46, x |-> 21],
       [has |-> FALSE, y |-> 0, x |-> 0] >>

\* Edges: from node 1 to a node with coordinates or to the one without.
Edges == { [u |-> 1, v |-> v, name |-> n] : v \in {2, 3}, n \in NameAttrs }

RECURSIVE SeqsUpTo(_, _)
SeqsUpTo(S, n) ==
    IF n = 0 THEN { <<>> }
    ELSE LET shorter == SeqsUpTo(S, n - 1)
         IN  shorter \cup { Append(q, e) : q \in { r \in shorter : Len(r) = n - 1 }, e \in S }

\* None
NoneGraph == [none |-> TRUE, nodes |-> <<>>, edges |-> <<>>]

\* a graph with zero nodes
EmptyGraph == [none |-> FALSE, nodes |-> <<>>, edges |-> <<>>]

\* len(graph): the number of nodes
GraphLen(g) == Len(g.nodes)

\* Mutants of IsEmptyGraph: a test that forgets the node count, and one that
\* forgets None.
IsEmptyGraph_NoneOnly(g) == g.none
IsEmptyGraph_LenOnly(g) == ~ g.none /\ GraphLen(g) = 0

\* `not graph or len(graph) == 0`
IsEmptyGraph(g) == g.none \/ GraphLen(g) = 0

\* Graphs with at least one node
NonEmptyGraphs ==
    { [none |-> FALSE, nodes |-> NodeTable, edges |-> es] : es \in SeqsUpTo(Edges, MaxEdges) }

-----------------------------------------------------------------------------
(* map_utils.py: process_street_geometries                                 *)

\* streets_to_zone.get(key) is truthy
IndexHit(index, key) == key \in DOMAIN index /\ index[key] # ""

\* Mutant of RecordRaisesKeyError: a missing coordinate is not noticed.
RecordRaisesKeyError_ZoneOnly(acc, g, e, zone_color) ==
    zone_color \notin DOMAIN acc.zone_geometries

\* lines 140-145: the record is appended unless a lookup raises KeyError
\* (an endpoint without coordinates, or a zone that zone_geometries lacks)
RecordRaisesKeyError(acc, g, e, zone_color) ==
    \/ ~ g.nodes[e.u].has
    \/ ~ g.nodes[e.v].has
    \/ zone_color \notin DOMAIN acc.zone_geometries

line_points(g, e) ==
    << << g.nodes[e.u].y, g.nodes[e.u].x >>, << g.nodes[e.v].y, g.nodes[e.v].x >> >>

\* Mutant of AppendRecord: the record is appended, the found set is not updated.
AppendRecord_FoundNotUpdated(acc, g, e, zone_color, name) ==
    [ zone_geometries |->
          [acc.zone_geometries EXCEPT
              ![zone_color] = Append(@, [points |-> line_points(g, e), name |-> name])],
      found_streets |-> acc.found_streets ]

\* Mutant of AppendRecord: the found set takes the name as written on the edge.
AppendRecord_OriginalCase(acc, g, e, zone_color, name) ==
    [ zone_geometries |->
          [acc.zone_geometries EXCEPT
              ![zone_color] = Append(@, [points |-> line_points(g, e), name |-> name])],
      found_streets |-> acc.found_streets \cup { name } ]

\* lines 144-145
AppendRecord(acc, g, e, zone_color, name) ==
    [ zone_geometries |->
          [acc.zone_geometries EXCEPT
              ![zone_color] = Append(@, [points |-> line_points(g, e), name |-> name])],
      found_streets |-> acc.found_streets \cup { Lower(name) } ]

\* lines 136-149: the loop over the candidate names of one edge, from the i-th
RECURSIVE MatchNames(_, _, _, _, _, _)
MatchNames(acc, g, e, street_names, i, index) ==
    IF i > Len(street_names) THEN acc
    ELSE LET name == street_names[i]
             key  == Lower(name)
         IN  IF IndexHit(index, key)
             THEN IF RecordRaisesKeyError(acc, g, e, index[key])
                  THEN MatchNames(acc, g, e, street_names, i + 1, index)   \* continue
                  ELSE AppendRecord(acc, g, e, index[key], name)           \* break
             ELSE MatchNames(acc, g, e, street_names, i + 1, index)

\* lines 130-134: the name attribute as a list of candidates; empty when falsy
StreetNames(attr) ==
    CASE attr.kind = "none" -> <<>>
      [] attr.kind = "str"  -> IF attr.s = <<>> THEN <<>> ELSE << attr.s >>
      [] attr.kind = "list" -> attr.l

\* lines 129-149: one iteration of the loop over the edges
ProcessEdge(acc, g, e, index) ==
    MatchNames(acc, g, e, StreetNames(e.name), 1, index)

\* lines 129-149: the loop over the edges, from the k-th
RECURSIVE EdgeLoop(_, _, _, _)
EdgeLoop(acc, g, k, index) ==
    IF k > Len(g.edges) THEN acc
    ELSE EdgeLoop(ProcessEdge(acc, g, g.edges[k], index), g, k + 1, index)

\* lines 125-126
EmptyAcc == [ zone_geometries |-> [color \in ZONE_COLORS |-> <<>>], found_streets |-> {} ]

\* Mutant of process_street_geometries: no match at all is raised as an error.
process_street_geometries_RaiseOnNoMatch(g, index) ==
    IF IsEmptyGraph(g)
    THEN [ raised |-> TRUE, exc |-> "ValueError", msg |-> "empty_graph",
           zone_geometries |-> <<>>, found_streets |-> {} ]
    ELSE LET acc == EdgeLoop(EmptyAcc, g, 1, index)
         IN  IF acc.found_streets = {}
             THEN [ raised |-> TRUE, exc |-> "ValueError", msg |-> "failed_to_process",
                    zone_geometries |-> <<>>, found_streets |-> {} ]
             ELSE [ raised |-> FALSE, exc |-> "", msg |-> "",
                    zone_geometries |-> acc.zone_geometries,
                    found_streets |-> acc.found_streets ]

\* process_street_geometries(graph, streets_to_zone).  With names that are absent,
\* a string or a list of strings, the KeyErrors of lines 140-144 are the only
\* exceptions of the loop, and line 147 catches them: the handler of lines 157-159
\* has nothing to wrap.
process_street_geometries(g, index) ==
    IF IsEmptyGraph(g)
    THEN [ raised |-> TRUE, exc |-> "ValueError", msg |-> "empty_graph",
           zone_geometries |-> <<>>, found_streets |-> {} ]
    ELSE LET acc == EdgeLoop(EmptyAcc, g, 1, index)
         IN  [ raised |-> FALSE, exc |-> "", msg |-> "",
               zone_geometries |-> acc.zone_geometries,
               found_streets |-> acc.found_streets ]

-----------------------------------------------------------------------------
(* parking_zones.py: ParkingZoneProcessor                                  *)

\* A constructor argument: not provided (None), or provided with a value.
NotGivenPoint == [given |-> FALSE, val |-> <<>>]
NotGivenProvider == [given |-> FALSE, val |-> ""]

\* Coordinates: a number, or a value that is no int and no float.
Num(n) == [num |-> TRUE, val |-> n]
NotANumber == [num |-> FALSE, val |-> 0]

\* Latitudes and longitudes tried, inside, on and outside the valid ranges.
Lats == { -95, 45, 95 }
Lons == { 20, 200 }

\* Center arguments: absent, pairs of numbers, and tuples of the wrong shape.
PointArgs ==
    { NotGivenPoint }
    \cup { [given |-> TRUE, val |-> << Num(la), Num(lo) >>] : la \in Lats, lo \in Lons }
    \cup { [given |-> TRUE, val |-> v] :
             v \in { <<>>, << Num(45) >>, << Num(45), NotANumber >>,
                     << Num(45), Num(20), Num(0) >> } }

\* Tile-provider arguments: absent, known, unknown and empty.
ProviderArgs ==
    { NotGivenProvider }
    \cup { [given |-> TRUE, val |-> v] : v \in { "cyclosm", "nonexistent", "" } }

\* line 35: target_point or DEFAULTS['target_point']
PointOrDefault(arg) ==
    IF arg.given /\ arg.val # <<>> THEN arg.val ELSE DEFAULTS.target_point

\* line 36: tile_provider or DEFAULTS['tile_provider']
ProviderOrDefault(arg) ==
    IF arg.given /\ arg.val # "" THEN arg.val ELSE DEFAULTS.tile_provider

\* lines 53-55: a tuple or list of two ints or floats
IsNumericPair(tp) == Len(tp) = 2 /\ \A i \in DOMAIN tp : tp[i].num

\* _validate_config: the message key of the ValueError raised, "" when none is
validate_config(tp, prov) ==
    IF ~ IsNumericPair(tp) THEN "invalid_coordinates"
    ELSE IF prov \notin get_tile_provider_all THEN "tile_provider_not_found"
    ELSE ""

\* _prepare_street_to_zone_lookup: the loop over PARKING_ZONES, later writers win
RECURSIVE StreetLoop(_, _, _, _)
StreetLoop(street_map, color, streets, j) ==
    IF j > Len(streets) THEN street_map
    ELSE LET key == Lower(streets[j])
         IN  StreetLoop([k \in DOMAIN street_map \cup {key} |->
                             IF k = key THEN color ELSE street_map[k]],
                        color, streets, j + 1)

RECURSIVE ZoneLoop(_, _)
ZoneLoop(street_map, i) ==
    IF i > Len(PARKING_ZONES) THEN street_map
    ELSE ZoneLoop(StreetLoop(street_map, PARKING_ZONES[i].color,
                             PARKING_ZONES[i].streets, 1), i + 1)

prepare_street_to_zone_lookup == ZoneLoop(<<>>, 1)

\* The outcome of an operation, as its caller sees it.
Ret(op, raised, exc, msg) ==
    [ op |-> op, raised |-> raised, exc |-> exc, msg |-> msg,
      aggregated |-> FALSE, missing |-> {}, counts |-> <<>>,
      point |-> NotGivenPoint, provider |-> NotGivenProvider,
      max_retries |-> 0, calls |-> <<>>,
      outcome |-> [kind |-> "none", text |-> <<>>, g |-> NoneGraph] ]

\* fetch_map_data is running: the caller has no outcome yet
Running == Ret("running", FALSE, "", "")

Init ==
    /\ constructed = FALSE
    /\ via = "none"
    /\ target_point = <<>>
    /\ tile_provider = ""
    /\ street_to_zone = <<>>
    /\ graph = NoneGraph
    /\ zone_geometries = <<>>
    /\ found_streets = {}
    /\ pc = "idle"
    /\ max_retries = 0
    /\ attempt = 0
    /\ calls = <<>>
    /\ fetch_called = FALSE
    /\ ret = Ret("none", FALSE, "", "")
    /\ agg_in = [g |-> NoneGraph, index |-> <<>>]
    /\ agg_out = [called |-> FALSE, raised |-> FALSE, exc |-> "", msg |-> "",
                  zone_geometries |-> <<>>, found_streets |-> {}]

\* __init__ (lines 35-47) called by `who` with the two arguments
Init__(who, op, pointArg, providerArg) ==
    LET tp   == PointOrDefault(pointArg)
        prov == ProviderOrDefault(providerArg)
        bad  == validate_config(tp, prov)
        r    == [Ret(op, bad # "", IF bad # "" THEN "ValueError" ELSE "", bad)
                    EXCEPT !.point = pointArg, !.provider = providerArg]
    IN  IF bad # ""
        THEN /\ ret' = r
             /\ UNCHANGED << constructed, via, target_point, tile_provider,
                             street_to_zone, graph, zone_geometries, found_streets >>
        ELSE /\ constructed' = TRUE
             /\ via' = who
             /\ target_point' = tp
             /\ tile_provider' = prov
             /\ street_to_zone' = prepare_street_to_zone_lookup
             /\ graph' = NoneGraph
             /\ zone_geometries' = <<>>
             /\ found_streets' = {}
             /\ ret' = r

\* ParkingZoneProcessor(target_point, tile_provider)
Construct(pointArg, providerArg) ==
    /\ ~ constructed
    /\ pc = "idle"
    /\ Init__("direct", "construct", pointArg, providerArg)
    /\ UNCHANGED << pc, max_retries, attempt, calls,
                    fetch_called, agg_in, agg_out >>

-----------------------------------------------------------------------------
(* main.py: generate_map up to the construction of its processor.  The     *)
(* calls it makes next (fetch_map_data, process_zones,                     *)
(* log_processing_summary) are the operations below.                       *)

\* Mutant of validate_coordinates: the latitude is not checked.
validate_coordinates_LonOnly(lat, lon) ==
    IF ~ (-180 <= lon /\ lon <= 180) THEN "longitude_out_of_range" ELSE ""

\* validate_coordinates: the ValueError raised, "" when none is
validate_coordinates(lat, lon) ==
    IF ~ (-90 <= lat /\ lat <= 90) THEN "latitude_out_of_range"
    ELSE IF ~ (-180 <= lon /\ lon <= 180) THEN "longitude_out_of_range"
    ELSE ""

\* generate_map(lat, lon, tile_provider, output_file), lines 120-131
GenerateMap(lat, lon, prov) ==
    /\ ~ constructed
    /\ pc = "idle"
    /\ LET bad   == validate_coordinates(lat, lon)
           point == [given |-> TRUE, val |-> << Num(lat), Num(lon) >>]
           parg  == [given |-> TRUE, val |-> prov]
       IN  IF bad # ""
           THEN /\ ret' = [Ret("generate_map", TRUE, "ValueError", bad)
                              EXCEPT !.point = point, !.provider = parg]
                /\ UNCHANGED << constructed, via, target_point, tile_provider,
                                street_to_zone, graph, zone_geometries, found_streets >>
           ELSE Init__("generate_map", "generate_map", point, parg)
    /\ UNCHANGED << pc, max_retries, attempt, calls,
                    fetch_called, agg_in, agg_out >>

-----------------------------------------------------------------------------
(* parking_zones.py: fetch_map_data                                        *)

\* "connection"
connection == << "c", "o", "n", "n", "e", "c", "t", "i", "o", "n" >>

\* Texts of the exceptions the retrieval collaborator raises.
FailTexts ==
    { << "C", "o", "n", "n", "e", "c", "t", "i", "o", "n", " ", "r", "e", "f", "u", "s",
         "e", "d" >>,
      << "M", "A", "X", " ", "R", "E", "T", "R", "I", "E", "S", ":", " ", "C", "O", "N",
         "N", "E", "C", "T", "I", "O", "N", " ", "R", "E", "S", "E", "T" >>,
      << "R", "e", "a", "d", " ", "t", "i", "m", "e", "d", " ", "o", "u", "t" >>,
      << "c", "o", "n", "n", "e", "c", "t", " ", "f", "a", "i", "l", "e", "d" >> }

\* Edges of the graphs the collaborator returns: named by one string or by a
\* list of two candidates.
FetchEdges ==
    { e \in Edges : e.name.kind = "str" \/ (e.name.kind = "list" /\ Len(e.name.l) = 2) }

\* What ox.graph_from_point returns: no nodes, nodes only, or nodes and an edge.
FetchGraphs ==
    { EmptyGraph, [none |-> FALSE, nodes |-> NodeTable, edges |-> <<>>] }
    \cup { [none |-> FALSE, nodes |-> NodeTable, edges |-> << e >>] : e \in FetchEdges }

\* Mutant of IsConnectionText: the test without lower().
IsConnectionText_CaseSensitive(text) == Contains(text, connection)

\* line 117: "connection" in str(e).lower()
IsConnectionText(text) == Contains(Lower(text), connection)

\* lines 115-119: the exception raised on the last attempt, given str(e)
ExhaustedError(text) ==
    IF IsConnectionText(text)
    THEN [exc |-> "ConnectionError", msg |-> "map_data_fetch_failed"]
    ELSE [exc |-> "ValueError", msg |-> "no_streets_found"]

\* line 108: the ValueError raised in the try block for an empty graph
EmptyGraphErrorText == ERROR_MESSAGES.no_streets_found

\* Mutant of IsLastAttempt: the last attempt taken to be the one before it.
IsLastAttempt_OffByOne == attempt + 1 = max_retries

\* line 115: attempt == max_retries
IsLastAttempt == attempt = max_retries

\* line 93: attempt in range(1, max_retries + 1)
InRange == attempt \in 1..max_retries

\* The return or raise of fetch_map_data: its locals are gone.
FetchEnds(raised, exc, msg, made, outcome) ==
    /\ pc' = "idle"
    /\ ret' = [Ret("fetch_map_data", raised, exc, msg)
                  EXCEPT !.max_retries = max_retries, !.calls = made,
                         !.outcome = outcome]
    /\ max_retries' = 0
    /\ attempt' = 0
    /\ calls' = <<>>

\* The next iteration of the loop of line 93.
FetchContinues ==
    /\ pc' = "fetch"
    /\ attempt' = attempt + 1
    /\ calls' = Append(calls, "failed")
    /\ UNCHANGED << ret, max_retries >>

\* fetch_map_data(max_retries) is called: line 93 enters the loop, or, with
\* max_retries < 1, falls through it and returns
FetchCall(m) ==
    /\ constructed
    /\ pc = "idle"
    /\ fetch_called' = TRUE
    /\ IF m >= 1
       THEN /\ pc' = "fetch"
            /\ max_retries' = m
            /\ attempt' = 1
            /\ calls' = <<>>
            /\ ret' = Running
       ELSE /\ pc' = "idle"
            /\ ret' = [Ret("fetch_map_data", FALSE, "", "") EXCEPT !.max_retries = m]
            /\ UNCHANGED << max_retries, attempt, calls >>
    /\ UNCHANGED << constructed, via, target_point, tile_provider, street_to_zone,
                    graph, zone_geometries, found_streets, agg_in, agg_out >>

\* lines 94-101, 114-121: ox.graph_from_point raises an exception with `text`
FetchAttemptRaises(text) ==
    /\ pc = "fetch"
    /\ InRange
    /\ LET outcome == [kind |-> "raise", text |-> text, g |-> NoneGraph]
       IN  IF IsLastAttempt
           THEN FetchEnds(TRUE, ExhaustedError(text).exc, ExhaustedError(text).msg,
                          Append(calls, "failed"), outcome)
           ELSE FetchContinues
    /\ UNCHANGED << constructed, via, target_point, tile_provider, street_to_zone,
                    graph, zone_geometries, found_streets, fetch_called, agg_in, agg_out >>

\* lines 94-109, 114-121: ox.graph_from_point returns a graph without nodes
FetchAttemptEmpty(g) ==
    /\ pc = "fetch"
    /\ InRange
    /\ IsEmptyGraph(g)
    /\ graph' = g
    /\ LET outcome == [kind |-> "graph", text |-> <<>>, g |-> g]
       IN  IF IsLastAttempt
           THEN FetchEnds(TRUE, ExhaustedError(EmptyGraphErrorText).exc,
                          ExhaustedError(EmptyGraphErrorText).msg,
                          Append(calls, "failed"), outcome)
           ELSE FetchContinues
    /\ UNCHANGED << constructed, via, target_point, tile_provider, street_to_zone,
                    zone_geometries, found_streets, fetch_called, agg_in, agg_out >>

\* Mutant of FetchAttemptOk: a successful fetch also clears the derived state.
FetchAttemptOk_ClearsDerived(g) ==
    /\ pc = "fetch"
    /\ InRange
    /\ ~ IsEmptyGraph(g)
    /\ graph' = g
    /\ zone_geometries' = <<>>
    /\ found_streets' = {}
    /\ FetchEnds(FALSE, "", "", Append(calls, "ok"),
                 [kind |-> "graph", text |-> <<>>, g |-> g])
    /\ UNCHANGED << constructed, via, target_point, tile_provider, street_to_zone,
                    fetch_called, agg_in, agg_out >>

\* lines 94-104, 111-112: ox.graph_from_point returns a graph with nodes
FetchAttemptOk(g) ==
    /\ pc = "fetch"
    /\ InRange
    /\ ~ IsEmptyGraph(g)
    /\ graph' = g
    /\ FetchEnds(FALSE, "", "", Append(calls, "ok"),
                 [kind |-> "graph", text |-> <<>>, g |-> g])
    /\ UNCHANGED << constructed, via, target_point, tile_provider, street_to_zone,
                    zone_geometries, found_streets, fetch_called, agg_in, agg_out >>

-----------------------------------------------------------------------------
(* parking_zones.py: process_zones and the observers                       *)

\* Mutant of ProcessZones: a failed call resets the stored results.
ProcessZones_ResetsOnRaise ==
    /\ constructed
    /\ pc = "idle"
    /\ IF IsEmptyGraph(graph)
       THEN /\ ret' = Ret("process_zones", TRUE, "ValueError", "no_map_data")
            /\ zone_geometries' = <<>>
            /\ found_streets' = {}
       ELSE LET r == process_street_geometries(graph, street_to_zone)
            IN  IF r.raised
                THEN /\ ret' = [Ret("process_zones", TRUE, "ValueError", "failed_to_process")
                                   EXCEPT !.aggregated = TRUE]
                     /\ UNCHANGED << zone_geometries, found_streets >>
                ELSE /\ zone_geometries' = r.zone_geometries
                     /\ found_streets' = r.found_streets
                     /\ ret' = [Ret("process_zones", FALSE, "", "")
                                   EXCEPT !.aggregated = TRUE]
    /\ UNCHANGED << constructed, via, target_point, tile_provider, street_to_zone,
                    graph, pc, max_retries, attempt, calls,
                    fetch_called, agg_in, agg_out >>

\* process_zones()
ProcessZones ==
    /\ constructed
    /\ pc = "idle"
    /\ IF IsEmptyGraph(graph)
       THEN /\ ret' = Ret("process_zones", TRUE, "ValueError", "no_map_data")
            /\ UNCHANGED << zone_geometries, found_streets >>
       ELSE LET r == process_street_geometries(graph, street_to_zone)
            IN  IF r.raised
                THEN /\ ret' = [Ret("process_zones", TRUE, "ValueError", "failed_to_process")
                                   EXCEPT !.aggregated = TRUE]
                     /\ UNCHANGED << zone_geometries, found_streets >>
                ELSE /\ zone_geometries' = r.zone_geometries
                     /\ found_streets' = r.found_streets
                     /\ ret' = [Ret("process_zones", FALSE, "", "")
                                   EXCEPT !.aggregated = TRUE]
    /\ UNCHANGED << constructed, via, target_point, tile_provider, street_to_zone,
                    graph, pc, max_retries, attempt, calls,
                    fetch_called, agg_in, agg_out >>

\* get_missing_streets()
get_missing_streets == (DOMAIN street_to_zone) \ found_streets

GetMissingStreets ==
    /\ constructed
    /\ pc = "idle"
    /\ ret' = [Ret("get_missing_streets", FALSE, "", "")
                  EXCEPT !.missing = get_missing_streets]
    /\ UNCHANGED << constructed, via, target_point, tile_provider, street_to_zone,
                    graph, zone_geometries, found_streets, pc, max_retries, attempt,
                    calls, fetch_called, agg_in, agg_out >>

\* log_processing_summary(): what it logs is the count of every zone and the
\* missing streets (their order in the log is not modelled)
LogProcessingSummary ==
    /\ constructed
    /\ pc = "idle"
    /\ ret' = [Ret("log_processing_summary", FALSE, "", "")
                  EXCEPT !.counts = [c \in DOMAIN zone_geometries |->
                                        Len(zone_geometries[c])],
                         !.missing = get_missing_streets]
    /\ UNCHANGED << constructed, via, target_point, tile_provider, street_to_zone,
                    graph, zone_geometries, found_streets, pc, max_retries, attempt,
                    calls, fetch_called, agg_in, agg_out >>

-----------------------------------------------------------------------------
(* The processor, used in any order by its caller.                         *)

Next ==
    \/ \E p \in PointArgs, t \in ProviderArgs : Construct(p, t)
    \/ \E la \in Lats, lo \in Lons, t \in { "openstreetmap", "nonexistent" } :
          GenerateMap(la, lo, t)
    \/ \E m \in -1..MaxRetries : FetchCall(m)
    \/ \E text \in FailTexts : FetchAttemptRaises(text)
    \/ \E g \in FetchGraphs : FetchAttemptEmpty(g)
    \/ \E g \in FetchGraphs : FetchAttemptOk(g)
    \/ ProcessZones
    \/ GetMissingStreets
    \/ LogProcessingSummary

Spec == Init /\ [][Next]_vars

-----------------------------------------------------------------------------
(* The aggregator called on its own, with any graph and any index.         *)

\* Keys and zones of the indexes tried; "blue" is no key of ZONE_COLORS.
IndexKeys == { Lower(Pup), Lower(SAV) }
IndexZones == { "red", "blue" }

Indexes ==
    { prepare_street_to_zone_lookup }
    \cup UNION { [K -> IndexZones] : K \in SUBSET IndexKeys }

AggGraphs == { NoneGraph, EmptyGraph } \cup NonEmptyGraphs

NotCalled ==
    [ called |-> FALSE, raised |-> FALSE, exc |-> "", msg |-> "",
      zone_geometries |-> <<>>, found_streets |-> {} ]

InitAgg ==
    /\ constructed = FALSE
    /\ via = "none"
    /\ target_point = <<>>
    /\ tile_provider = ""
    /\ street_to_zone = <<>>
    /\ graph = NoneGraph
    /\ zone_geometries = <<>>
    /\ found_streets = {}
    /\ pc = "idle"
    /\ max_retries = 0
    /\ attempt = 0
    /\ calls = <<>>
    /\ fetch_called = FALSE
    /\ ret = Ret("none", FALSE, "", "")
    /\ agg_in \in [g : AggGraphs, index : Indexes]
    /\ agg_out = NotCalled

\* process_street_geometries(agg_in.g, agg_in.index) is called
CallAggregate ==
    /\ ~ agg_out.called
    /\ LET r == process_street_geometries(agg_in.g, agg_in.index)
       IN  agg_out' = [ called |-> TRUE, raised |-> r.raised, exc |-> r.exc,
                        msg |-> r.msg, zone_geometries |-> r.zone_geometries,
                        found_streets |-> r.found_streets ]
    /\ UNCHANGED << agg_in, procVars >>

NextAgg == CallAggregate

SpecAgg == InitAgg /\ [][NextAgg]_vars

-----------------------------------------------------------------------------
(* Claims.                                                                 *)

\* fetch_map_data has returned or raised, having entered its loop
FetchDone == ret.op = "fetch_map_data" /\ ret.max_retries >= 1

AllFailed(cs) == \A i \in DOMAIN cs : cs[i] = "failed"

\* C1: with max_retries >= 1, fetch_map_data raises only after exactly max_retries
\* collaborator calls, all of them failed; while fewer calls have been made and all
\* have failed it is still running; and it returns normally only on a call that
\* did not fail.
C1_ExactlyMaxRetriesCalls ==
    /\ (FetchDone /\ ret.raised) =>
          (Len(ret.calls) = ret.max_retries /\ AllFailed(ret.calls))
    /\ pc = "fetch" =>
          (Len(calls) < max_retries /\ AllFailed(calls) /\ attempt = Len(calls) + 1)
    /\ (FetchDone /\ ~ ret.raised) => ~ AllFailed(ret.calls)

\* C1 witness: three failed calls of three allowed, then the raise
C1_Witness ==
    /\ FetchDone /\ ret.raised
    /\ ret.max_retries = 3 /\ Len(ret.calls) = 3 /\ AllFailed(ret.calls)

\* C2: when attempt k <= max_retries is the first to return a graph with nodes,
\* fetch_map_data returns without raising after exactly k calls, k-1 of them failed,
\* and self.graph is the graph of the k-th call.
C2_SucceedsOnKthAttempt ==
    (FetchDone /\ ~ ret.raised) =>
        LET k == Len(ret.calls)
        IN  /\ k \in 1..ret.max_retries
            /\ \A i \in 1..(k - 1) : ret.calls[i] = "failed"
            /\ ret.calls[k] = "ok"
            /\ ret.outcome.kind = "graph"
            /\ graph = ret.outcome.g
            /\ ~ graph.none /\ Len(graph.nodes) >= 1
            /\ pc = "idle" /\ calls = <<>>

\* C2 witness: two failures, then success on the third of three attempts
C2_Witness ==
    /\ FetchDone /\ ~ ret.raised
    /\ ret.max_retries = 3
    /\ ret.calls = << "failed", "failed", "ok" >>
    /\ graph.edges # <<>>

\* the failure text of the last attempt names a connection, in any case
LastFailureNamesConnection ==
    ret.outcome.kind = "raise" /\ Contains(Lower(ret.outcome.text), connection)

\* C3: on exhausting the retries the error is a ConnectionError when the text of
\* the last failure contains "connection" in any case, and otherwise the ValueError
\* "no streets found"; a graph without nodes on the last attempt gives the latter.
C3_ErrorClassification ==
    (FetchDone /\ ret.raised) =>
        IF LastFailureNamesConnection
        THEN ret.exc = "ConnectionError" /\ ret.msg = "map_data_fetch_failed"
        ELSE ret.exc = "ValueError" /\ ret.msg = "no_streets_found"

\* C3 witness: a last failure whose text has "CONNECTION" in upper case only
C3_Witness ==
    /\ FetchDone /\ ret.raised /\ ret.exc = "ConnectionError"
    /\ ret.outcome.kind = "raise" /\ ~ Contains(ret.outcome.text, connection)

\* C4: process_zones before any fetch_map_data call raises the ValueError "No map
\* data available", does not call the aggregator and stores nothing.
C4_ProcessBeforeFetch ==
    (ret.op = "process_zones" /\ ~ fetch_called) =>
        /\ ret.raised /\ ret.exc = "ValueError" /\ ret.msg = "no_map_data"
        /\ ~ ret.aggregated
        /\ zone_geometries = <<>> /\ found_streets = {}

\* C4 witness: process_zones has raised on a processor that never fetched
C4_Witness ==
    ret.op = "process_zones" /\ ~ fetch_called /\ ret.raised /\ graph.none

\* C5: once process_zones has completed, get_missing_streets() and found_streets
\* are disjoint and together are the key set of street_to_zone.
C5_MissingFoundPartition ==
    (constructed /\ zone_geometries # <<>>) =>
        /\ get_missing_streets \cap found_streets = {}
        /\ get_missing_streets \cup found_streets = DOMAIN street_to_zone
        /\ ret.op = "get_missing_streets" =>
              /\ ret.missing \cap found_streets = {}
              /\ ret.missing \cup found_streets = DOMAIN street_to_zone

\* C5 witness: get_missing_streets() called after a process_zones that found a street
C5_Witness ==
    /\ zone_geometries # <<>> /\ found_streets # {}
    /\ ret.op = "get_missing_streets" /\ ret.missing # {}

\* a pair of numbers with latitude in [-90, 90] and longitude in [-180, 180]
CenterInRange(tp) ==
    /\ Len(tp) = 2 /\ tp[1].num /\ tp[2].num
    /\ -90 <= tp[1].val /\ tp[1].val <= 90
    /\ -180 <= tp[2].val /\ tp[2].val <= 180

\* C6, as claimed: no processor with an out-of-range center exists.
C6_Original == constructed => CenterInRange(target_point)

\* C6, amended: generate_map called with an out-of-range latitude or longitude raises
\* a ValueError before it constructs a processor, so a processor constructed by
\* generate_map has its center in range; the constructor itself checks no range.
C6_RangeCheckedByGenerateMap ==
    /\ (constructed /\ via = "generate_map") => CenterInRange(target_point)
    /\ (ret.op = "generate_map" /\ ~ CenterInRange(ret.point.val)) =>
          (ret.raised /\ ret.exc = "ValueError" /\ ~ constructed)

\* C6 witness: generate_map(95, 20, ...) has raised and no processor exists
C6_Witness ==
    /\ ret.op = "generate_map" /\ ret.raised /\ ~ constructed
    /\ ret.point.val[1].val = 95 /\ ret.point.val[2].val = 20

\* the arguments of the last constructor call: one is provided and invalid
ProvidedInvalid ==
    \/ ret.point.given
         /\ ~ (Len(ret.point.val) = 2 /\ \A i \in DOMAIN ret.point.val : ret.point.val[i].num)
    \/ ret.provider.given /\ ret.provider.val \notin TILE_PROVIDERS

\* C7: a constructor call with a provided but invalid center or tile provider
\* raises a ValueError; a default never stands in for a provided value.
C7_NoDefaultForInvalid ==
    (ret.op = "construct" /\ ProvidedInvalid) => (ret.raised /\ ret.exc = "ValueError")

\* C8: on a graph with at least one node the aggregator does not raise, whatever
\* the index; it returns one sequence per zone of ZONE_COLORS, and when no candidate
\* name of any edge is a key of the index, every sequence and the found set are empty.
NoEdgeMatches ==
    \A k \in DOMAIN agg_in.g.edges :
        LET names == StreetNames(agg_in.g.edges[k].name)
        IN  \A i \in DOMAIN names : Lower(names[i]) \notin DOMAIN agg_in.index

C9_EmptyGraphRaises ==
    (agg_out.called /\ (agg_in.g.none \/ Len(agg_in.g.nodes) = 0)) =>
        /\ agg_out.raised /\ agg_out.exc = "ValueError" /\ agg_out.msg = "empty_graph"
        /\ agg_out.zone_geometries = <<>> /\ agg_out.found_streets = {}

\* C9 witness: the aggregator has raised on a graph that is not None and has no node
C9_Witness ==
    /\ agg_out.called /\ agg_out.raised
    /\ ~ agg_in.g.none /\ Len(agg_in.g.nodes) = 0

\* a step in which fetch_map_data returns normally with a fetched graph
FetchReturns == pc = "fetch" /\ pc' = "idle" /\ ~ ret'.raised

\* C10, as claimed: when fetch_map_data returns on a processor that holds the
\* results of an earlier process_zones, and the new graph aggregates differently,
\* the stored results change.
C10_Original ==
    [][ ( /\ FetchReturns
          /\ zone_geometries # <<>>
          /\ process_street_geometries(graph', street_to_zone).zone_geometries
                # zone_geometries )
        => zone_geometries' # zone_geometries ]_vars

\* C10, amended: fetch_map_data overwrites the graph only; zone_geometries,
\* found_streets and get_missing_streets() are what they were before the call.
C10_FetchOverwritesGraphOnly ==
    [][ FetchReturns =>
          /\ graph' = ret'.outcome.g
          /\ zone_geometries' = zone_geometries
          /\ found_streets' = found_streets
          /\ get_missing_streets' = get_missing_streets ]_vars

\* C10 witness: after a second fetch the stored results are those of the first
\* graph, not of the graph now held
C10_Witness ==
    /\ ret.op = "fetch_map_data" /\ ~ ret.raised /\ ~ IsEmptyGraph(graph)
    /\ zone_geometries # <<>> /\ found_streets # {}
    /\ process_street_geometries(graph, street_to_zone).found_streets # found_streets

-----------------------------------------------------------------------------
(* Claims about the aggregator's matching of one edge.                     *)

\* both endpoints of the edge carry coordinates
HasCoordinates(g, e) == g.nodes[e.u].has /\ g.nodes[e.v].has

\* the position of the first candidate whose lower-cased form is in the index,
\* 0 when there is none
FirstInIndex(names, index) ==
    LET hits == { i \in DOMAIN names : IndexHit(index, Lower(names[i])) }
    IN  IF hits = {} THEN 0 ELSE CHOOSE i \in hits : \A j \in hits : i <= j

\* the records zone z holds when every edge from the k-th on contributes the
\* record of its first candidate in the index, and nothing else
RECURSIVE FirstMatchRecords(_, _, _, _)
FirstMatchRecords(g, index, z, k) ==
    IF k > Len(g.edges) THEN <<>>
    ELSE LET e     == g.edges[k]
             names == StreetNames(e.name)
             i     == FirstInIndex(names, index)
             rest  == FirstMatchRecords(g, index, z, k + 1)
         IN  IF i # 0 /\ HasCoordinates(g, e) /\ index[Lower(names[i])] = z
             THEN << [points |-> line_points(g, e), name |-> names[i]] >> \o rest
             ELSE rest

\* the zones an index maps to
IndexValues(index) == { index[key] : key \in DOMAIN index }

\* the records the result holds for zone z, none when it has no such zone
RecordsOf(zg, z) == IF z \in DOMAIN zg THEN zg[z] ELSE <<>>

\* C11: every edge (with coordinates) contributes at most one record, which is
\* that of its first candidate whose lower-cased form is in the index, placed in
\* the zone the index gives for that candidate and carrying the name as written;
\* later candidates contribute nothing.
C11_FirstCandidateWins ==
    (agg_out.called /\ ~ agg_out.raised) =>
        \A z \in IndexValues(agg_in.index) \cup DOMAIN agg_out.zone_geometries :
            RecordsOf(agg_out.zone_geometries, z)
                = FirstMatchRecords(agg_in.g, agg_in.index, z, 1)

\* the graph without its edges that lack an endpoint's coordinates
RECURSIVE WellFormedEdges(_, _)
WellFormedEdges(g, k) ==
    IF k > Len(g.edges) THEN <<>>
    ELSE IF HasCoordinates(g, g.edges[k])
         THEN << g.edges[k] >> \o WellFormedEdges(g, k + 1)
         ELSE WellFormedEdges(g, k + 1)

WithoutMalformed(g) == [g EXCEPT !.edges = WellFormedEdges(g, 1)]

\* an edge of g is named in the index and lacks an endpoint's coordinates
HasMalformedMatch(g, index) ==
    \E k \in DOMAIN g.edges :
        /\ ~ HasCoordinates(g, g.edges[k])
        /\ FirstInIndex(StreetNames(g.edges[k].name), index) # 0

\* C12: an edge whose coordinate lookup fails is skipped without aborting the
\* run: the call returns normally, and its two results are those of the same
\* graph with the malformed edges taken out (no record and no found name comes
\* from them, every other edge is processed as before).
C12_MalformedEdgeSkipped ==
    (agg_out.called /\ ~ IsEmptyGraph(agg_in.g)) =>
        LET clean == process_street_geometries(WithoutMalformed(agg_in.g), agg_in.index)
        IN  /\ ~ agg_out.raised
            /\ agg_out.zone_geometries = clean.zone_geometries
            /\ agg_out.found_streets = clean.found_streets

\* C12 witness: a matched edge without coordinates was skipped and another edge
\* of the same graph was recorded
C12_Witness ==
    /\ agg_out.called /\ ~ agg_out.raised
    /\ HasMalformedMatch(agg_in.g, agg_in.index)
    /\ agg_out.found_streets # {}
    /\ \E k \in DOMAIN agg_in.g.edges :
          /\ ~ HasCoordinates(agg_in.g, agg_in.g.edges[k])
          /\ \A n \in DOMAIN StreetNames(agg_in.g.edges[k].name) :
                Lower(StreetNames(agg_in.g.edges[k].name)[n]) \notin agg_out.found_streets

\* the edge is recorded, under one of its candidates, in the zone the index
\* gives for that candidate
RecordedUnderIndexZone(zg, g, e, index) ==
    \E n \in DOMAIN StreetNames(e.name) :
        LET name == StreetNames(e.name)[n]
        IN  /\ IndexHit(index, Lower(name))
            /\ index[Lower(name)] \in DOMAIN zg
            /\ \E r \in DOMAIN zg[index[Lower(name)]] :
                  zg[index[Lower(name)]][r] = [points |-> line_points(g, e), name |-> name]

\* C13: the returned collection has exactly one sequence per zone of the index's
\* value set, for every index, and every edge (with coordinates) whose name is in
\* the index is recorded under the zone the index assigns to it.
C13_KeysAreIndexZones ==
    (agg_out.called /\ ~ agg_out.raised) =>
        /\ DOMAIN agg_out.zone_geometries = IndexValues(agg_in.index)
        /\ \A k \in DOMAIN agg_in.g.edges :
              LET e == agg_in.g.edges[k]
              IN  ( /\ HasCoordinates(agg_in.g, e)
                    /\ FirstInIndex(StreetNames(e.name), agg_in.index) # 0 )
                  => RecordedUnderIndexZone(agg_out.zone_geometries, agg_in.g, e,
                                            agg_in.index)

-----------------------------------------------------------------------------
(* Claims about the processor's derived state.                             *)

\* C14: in every reachable state of a processor, found_streets is exactly the
\* set of lower-cased names of the records held in zone_geometries, and every
\* record is stored under the zone the street-to-zone index gives for its
\* lower-cased name.
C14_FoundMatchesRecords ==
    constructed =>
        /\ found_streets
              = UNION { { Lower(zone_geometries[z][r].name) : r \in DOMAIN zone_geometries[z] } :
                        z \in DOMAIN zone_geometries }
        /\ \A z \in DOMAIN zone_geometries : \A r \in DOMAIN zone_geometries[z] :
              LET key == Lower(zone_geometries[z][r].name)
              IN  key \in DOMAIN street_to_zone /\ street_to_zone[key] = z

\* C14 witness: a processor that holds a record whose name is written in
\* another case than its key in the index
C14_Witness ==
    /\ constructed
    /\ \E z \in DOMAIN zone_geometries : \E r \in DOMAIN zone_geometries[z] :
          /\ zone_geometries[z][r].name # Lower(zone_geometries[z][r].name)
          /\ Lower(zone_geometries[z][r].name) \in found_streets

\* C15: for every value of max_retries, zero and negative ones included, when
\* fetch_map_data has returned without raising, the processor holds a graph
\* with at least one node that a collaborator call of this invocation returned
\* (so process_zones, called next, does not raise "No map data available").
C15_NormalReturnHoldsGraph ==
    (ret.op = "fetch_map_data" /\ ~ ret.raised) =>
        /\ ~ IsEmptyGraph(graph)
        /\ ret.calls # <<>>
        /\ ret.outcome.kind = "graph"
        /\ ret.outcome.g = graph

\* a step in which process_zones raises
ProcessZonesRaises == pc = "idle" /\ ret'.op = "process_zones" /\ ret'.raised

====
